---------------------------- MODULE Spec2Model ----------------------------
(***************************************************************************)
(* A state-machine model of snyk_collections_manager.py: the command-line  *)
(* entry point main, the SnykCollectionsManager methods it drives, and the *)
(* remote REST service the methods talk to.  The program is sequential;    *)
(* every network request is one step whose answer (a failure status, or a  *)
(* successful body) is chosen by the remote.                               *)
(***************************************************************************)
EXTENDS Integers, Sequences, FiniteSets, TLC

(***************************************************************************)
(* Bounds of the model.                                                    *)
(***************************************************************************)
\* pages of a listing when a lister is called on its own
MaxPages == 3
\* entries on one page when a lister is called on its own
MaxPageLen == 2
\* pages and entries per page of the groups listing that
\* find_collection_by_name scans when it is called on its own
FindPages == 2
FindPageLen == 2
\* pages of the projects listing in a whole run
RunPages == 1
\* entries on one page (projects or groups) in a whole run
RunPageLen == 2

(***************************************************************************)
(* Values.  An optional value (Python's None or a value) is a sequence of  *)
(* length at most one.  A JSON field that is absent is NoField.            *)
(***************************************************************************)
None == <<>>
Some(x) == <<x>>
NoField == "<absent>"

\* ids the remote gives to entries, by page cursor (row) and position
IdTable ==
  << <<"p1", "p2", "p3">>, <<"q1", "q2", "q3">>,
     <<"r1", "r2", "r3">>, <<"s1", "s2", "s3">> >>
GroupIdTable ==
  << <<"g1", "g2", "g3">>, <<"h1", "h2", "h3">>,
     <<"i1", "i2", "i3">>, <<"j1", "j2", "j3">> >>
\* ids the remote gives to the groups it creates, in creation order
NewGroupIds == <<"n1", "n2", "n3", "n4", "n5", "n6">>

\* group names: two that differ in case only
Names == {"Backend", "backend"}
Prefixes == {"svc-"}
\* HTTP failures of a request: "transport" is an error with no response
ErrStatus == {"transport", "401", "403", "404", "500"}

Range(s) == {s[i] : i \in 1..Len(s)}

RECURSIVE Flatten(_)
Flatten(ss) == IF ss = <<>> THEN <<>> ELSE Head(ss) \o Flatten(Tail(ss))

(***************************************************************************)
(* The remote: a listing is a chain of pages; page i carries a cursor and  *)
(* its data, and its "next" link is the URL of page i+1.                   *)
(***************************************************************************)
Injective(f) == \A i, j \in DOMAIN f : f[i] = f[j] => i = j

Orders(n, cursors) ==
  {o \in [1..n -> cursors] : o[1] = 0 /\ Injective(o)}

ProjectPage(cur, n) ==
  [cur |-> cur, data |-> [j \in 1..n |-> [id |-> IdTable[cur + 1][j]]]]

\* every projects chain of at most maxPages pages of at most maxLen entries
ProjectChains(maxPages, maxLen) ==
  UNION {
    {[i \in 1..n |-> ProjectPage(o[i], s[i])] :
        o \in Orders(n, 0..(maxPages - 1)), s \in [1..n -> 0..maxLen]}
    : n \in 1..maxPages}

Positions(chain) ==
  UNION {{<<i, j>> : j \in 1..Len(chain[i].data)} : i \in 1..Len(chain)}

DropId(chain, pos) ==
  [chain EXCEPT ![pos[1]].data[pos[2]].id = NoField]

\* the chains, and each chain with one entry's id field absent
WithAbsentId(chains) ==
  chains \cup UNION {{DropId(c, pos) : pos \in Positions(c)} : c \in chains}

\* the chains, and each chain with its first entry's id field absent
WithFirstIdAbsent(chains) ==
  chains \cup
  UNION {{DropId(c, pos) : pos \in Positions(c) \cap {<<1, 1>>}} : c \in chains}

GroupPage(cur, names) ==
  [cur |-> cur,
   data |-> [j \in 1..Len(names) |->
               [id |-> GroupIdTable[cur + 1][j], name |-> names[j]]]]

NameSeqs(maxLen, names) ==
  UNION {[1..n -> names] : n \in 0..maxLen}

GroupChains(maxPages, maxLen, names) ==
  UNION {
    {[i \in 1..n |-> GroupPage(o[i], s[i])] :
        o \in Orders(n, 0..(maxPages - 1)),
        s \in [1..n -> NameSeqs(maxLen, names)]}
    : n \in 1..maxPages}

Entries(chain) == Flatten([i \in 1..Len(chain) |-> chain[i].data])

(***************************************************************************)
(* What the remote answers to a successful GET of a listing URL.           *)
(***************************************************************************)
HasPage(chain, u) == \E i \in 1..Len(chain) : chain[i].cur = u.cursor

PageAt(chain, u) == CHOOSE i \in 1..Len(chain) : chain[i].cur = u.cursor

Serve(chain, u) ==
  LET i == PageAt(chain, u) IN
  [data |-> chain[i].data,
   next |-> IF i < Len(chain)
            THEN Some([u EXCEPT !.cursor = chain[i + 1].cur])
            ELSE None]

\* the remote after it created a group: the group joins the last page
AddGroup(chain, g) ==
  [chain EXCEPT ![Len(chain)].data = Append(@, g)]

VARIABLES
  entry,        \* the function the caller invoked
  args,         \* command-line arguments and configuration-file state
  pc,           \* position in the program
  stack,        \* return positions of the calls in progress
  url,          \* a lister's url: None when the loop ends
  projects,     \* get_projects_by_name_prefix's accumulator
  collections,  \* get_collections's accumulator
  project_ids,  \* process_projects_and_collection's id batch
  collection,   \* the group process_projects_and_collection works on
  cc_ids,       \* create_collection's project_ids parameter
  add_args,     \* add_projects_to_collection's parameters
  save_args,    \* save_project_ids's parameters
  result,       \* the value the last return gave
  outcome,      \* "running", "returned", "exit" or "fault"
  exit_code,    \* the process exit code, once there is one
  log,          \* every network request issued, and whether it succeeded
  last_status,  \* the status the last request was answered with
  marks,        \* length of log when each run started
  remote,       \* the remote service's listings and associations
  file          \* the bytes of the file at each path, once it exists

vars == <<entry, args, pc, stack, url, projects, collections, project_ids,
          collection, cc_ids, add_args, save_args, result, outcome,
          exit_code, log, last_status, marks, remote, file>>

(***************************************************************************)
(* Inputs.                                                                 *)
(***************************************************************************)
EntryPoints ==
  {"main", "process_projects_and_collection", "get_projects_by_name_prefix",
   "extract_project_ids", "get_collections", "find_collection_by_name",
   "add_projects_to_collection", "save_project_ids"}

\* the configuration file: absent, not JSON, JSON that is no object, or an
\* object in which each of api_token and org_id is present or not
Configs ==
  {[kind |-> k, api_token |-> FALSE, org_id |-> FALSE] :
      k \in {"missing", "malformed", "notobject"}} \cup
  {[kind |-> "object", api_token |-> a, org_id |-> b] : a, b \in BOOLEAN}

NoConfig == [kind |-> "missing", api_token |-> FALSE, org_id |-> FALSE]

OutputPaths == {None, Some("ids.txt")}

\* f"project_ids_{int(time.time())}.txt"
TimestampPath == "project_ids_<time>.txt"

FilePaths == {"ids.txt", TimestampPath}

\* no file exists
NoFiles == [p \in FilePaths |-> None]

\* arguments of a call of a method of a constructed manager
MethodArgs(prefix, name, output) ==
  [prefix |-> prefix, collection |-> name, output |-> output,
   token |-> TRUE, org |-> TRUE, config |-> NoConfig, dry_run |-> FALSE]

MainArgs ==
  {[prefix |-> p, collection |-> "Backend", output |-> o, token |-> t,
    org |-> g, config |-> c, dry_run |-> d] :
      p \in Prefixes, o \in OutputPaths, t \in BOOLEAN, g \in BOOLEAN,
      c \in Configs, d \in BOOLEAN}

\* both credentials can be had from the command line and the file
CredentialsPresent(a) ==
  \/ a.token /\ a.org
  \/ /\ a.config.kind = "object"
     /\ a.token \/ a.config.api_token
     /\ a.org \/ a.config.org_id

EmptyChain == <<[cur |-> 0, data |-> <<>>]>>

Remote(pchain, gchain) ==
  [projects |-> pchain, groups |-> gchain, assoc |-> {}, created |-> 0]

RunRemotes ==
  {Remote(p, g) :
     p \in WithFirstIdAbsent(ProjectChains(RunPages, RunPageLen)),
     g \in WithAbsentId(GroupChains(1, RunPageLen, Names))}

\* one project, and one group with the target name: the remote of the runs
\* of main that take a credential from the configuration file
SmallRemote ==
  Remote(<<ProjectPage(0, 1)>>, <<GroupPage(0, <<"Backend">>)>>)

NoAdd == [collection_id |-> NoField, project_ids |-> <<>>]

AddArgs ==
  {[collection_id |-> c, project_ids |-> ids] :
     c \in {"g1", "h2"}, ids \in {<<>>, <<"p1">>, <<"p1", "p2">>}}

NoSave == [project_ids |-> <<>>, output_file |-> None]

SaveArgs ==
  {[project_ids |-> ids, output_file |-> o] :
     ids \in {<<>>, <<"p1">>, <<"p1", "p2">>}, o \in OutputPaths}

\* the files save_project_ids may find when it is called on its own
OldFiles ==
  {NoFiles, [NoFiles EXCEPT !["ids.txt"] = Some(<<"o", "l", "d", "\n">>)]}

InitLocals ==
  /\ pc = entry
  /\ stack = <<>>
  /\ url = None
  /\ projects = <<>>
  /\ collections = <<>>
  /\ project_ids = <<>>
  /\ collection = None
  /\ cc_ids = <<>>
  /\ result = <<>>
  /\ outcome = "running"
  /\ exit_code = None
  /\ log = <<>>
  /\ last_status = ""
  /\ marks = <<0>>

Init ==
  /\ entry \in EntryPoints
  /\ \/ /\ entry = "main"
        /\ args \in MainArgs
        /\ IF ~CredentialsPresent(args) \/ args.dry_run
           THEN remote = Remote(EmptyChain, EmptyChain)
           ELSE IF args.token /\ args.org /\ args.config = NoConfig
           THEN remote \in RunRemotes
           ELSE remote = SmallRemote
        /\ add_args = NoAdd
        /\ save_args = NoSave
        /\ file = NoFiles
     \/ /\ entry = "process_projects_and_collection"
        /\ args \in {MethodArgs(p, "Backend", o) :
                       p \in Prefixes, o \in OutputPaths}
        /\ remote \in RunRemotes
        /\ add_args = NoAdd
        /\ save_args = NoSave
        /\ file = NoFiles
     \/ /\ entry = "get_projects_by_name_prefix"
        /\ args \in {MethodArgs(p, "Backend", None) : p \in Prefixes}
        /\ remote \in {Remote(c, EmptyChain) :
                         c \in ProjectChains(MaxPages, MaxPageLen)}
        /\ add_args = NoAdd
        /\ save_args = NoSave
        /\ file = NoFiles
     \/ /\ entry = "extract_project_ids"
        /\ args \in {MethodArgs(p, "Backend", None) : p \in Prefixes}
        /\ remote \in {Remote(c, EmptyChain) :
              c \in WithAbsentId(ProjectChains(MaxPages, MaxPageLen))}
        /\ add_args = NoAdd
        /\ save_args = NoSave
        /\ file = NoFiles
     \/ /\ entry = "get_collections"
        /\ args \in {MethodArgs(p, "Backend", None) : p \in Prefixes}
        /\ remote \in {Remote(EmptyChain, c) :
              c \in GroupChains(MaxPages, MaxPageLen, {"Backend"})}
        /\ add_args = NoAdd
        /\ save_args = NoSave
        /\ file = NoFiles
     \/ /\ entry = "find_collection_by_name"
        /\ args \in {MethodArgs(p, n, None) : p \in Prefixes, n \in Names}
        /\ remote \in {Remote(EmptyChain, c) :
              c \in GroupChains(FindPages, FindPageLen, Names)}
        /\ add_args = NoAdd
        /\ save_args = NoSave
        /\ file = NoFiles
     \/ /\ entry = "add_projects_to_collection"
        /\ args \in {MethodArgs(p, "Backend", None) : p \in Prefixes}
        /\ remote = Remote(EmptyChain, EmptyChain)
        /\ add_args \in AddArgs
        /\ save_args = NoSave
        /\ file = NoFiles
     \/ /\ entry = "save_project_ids"
        /\ args \in {MethodArgs(p, "Backend", None) : p \in Prefixes}
        /\ remote = Remote(EmptyChain, EmptyChain)
        /\ add_args = NoAdd
        /\ save_args \in SaveArgs
        /\ file \in OldFiles
  /\ InitLocals

(***************************************************************************)
(* Requests.  Every request is logged as it is issued, with its success.   *)
(***************************************************************************)
ProjectsUrl(name_prefix) ==
  [ep |-> "projects", names_start_with |-> name_prefix, cursor |-> 0]

CollectionsUrl ==
  [ep |-> "collections", names_start_with |-> "", cursor |-> 0]

NoUrl == [ep |-> "", names_start_with |-> "", cursor |-> 0]

GetRequest(u, ok) ==
  [kind |-> "list", url |-> u, name |-> "", inline |-> FALSE, ids |-> <<>>,
   collection_id |-> "", ok |-> ok, answer_id |-> ""]

\* a creation payload that never carries the projects relationship
CreateRequestNameOnly(collection_name, ids, ok, answer_id) ==
  [kind |-> "create", url |-> NoUrl, name |-> collection_name,
   inline |-> FALSE, ids |-> <<>>,
   collection_id |-> "", ok |-> ok, answer_id |-> answer_id]

\* the creation payload: the name, and the projects relationship when the
\* id batch is not empty
\* answer_id is the id of the group in the answer to a creation request
CreateRequest(collection_name, ids, ok, answer_id) ==
  [kind |-> "create", url |-> NoUrl, name |-> collection_name,
   inline |-> ids # <<>>, ids |-> ids, collection_id |-> "",
   ok |-> ok, answer_id |-> answer_id]

AttachRequest(collection_id, ids, ok) ==
  [kind |-> "attach", url |-> NoUrl, name |-> "", inline |-> FALSE,
   ids |-> ids, collection_id |-> collection_id, ok |-> ok,
   answer_id |-> ""]

(***************************************************************************)
(* The program's pure steps.                                               *)
(***************************************************************************)
\* a page's entries put before the ones already gathered
ExtendAtFront(acc, data) == data \o acc

\* projects.extend(project_data), collections.extend(collection_data)
Extend(acc, data) == acc \o data

\* the next link is not followed
NextUrlIgnored(response) == None

\* url = links.get('next')
NextUrl(response) == response.next

\* the pages gathered before the failure given back
PartialListing(acc) == acc

\* except requests.exceptions.RequestException: ... return []
ListErrorResult(acc) == <<>>

\* [project['id'] for project in projects]; KeyError when an id is absent
HasIds(ps) == \A i \in 1..Len(ps) : ps[i].id # NoField

IdsOf(ps) == [i \in 1..Len(ps) |-> ps[i].id]

\* a comparison of names that ignores case
Lower(name) == IF name = "Backend" THEN "backend" ELSE name

RECURSIVE FindByNameIgnoringCase(_, _)
FindByNameIgnoringCase(cs, collection_name) ==
  IF cs = <<>> THEN None
  ELSE IF Lower(Head(cs).name) = Lower(collection_name) THEN Some(Head(cs))
  ELSE FindByNameIgnoringCase(Tail(cs), collection_name)

\* for collection in collections: return the first one whose name attribute
\* equals collection_name; None when the loop ends without one
RECURSIVE FindByName(_, _)
FindByName(cs, collection_name) ==
  IF cs = <<>> THEN None
  ELSE IF Head(cs).name = collection_name THEN Some(Head(cs))
  ELSE FindByName(Tail(cs), collection_name)

\* collections is None or (... len(collections) == 0 and not collections)
Unavailable(cs) == cs = <<>>

\* a failed creation is tried again, without projects, when it had projects
FallsBack(ids) == ids # <<>>

\* an empty batch is sent like any other
NoProjectsNever(ids) == FALSE

\* if not project_ids: return True
NoProjects(ids) == ids = <<>>

\* the fallback's collection is dropped instead of returned
FallbackLost(inner) == None

\* return self.create_collection(collection_name)
FallbackResult(inner) == inner

\* exit codes the wrong way round
ExitCodeSwapped(ids) == IF ids # <<>> THEN 1 ELSE 0

\* success whatever was extracted
ExitCodeZero(ids) == 0

\* main's exit code after process_projects_and_collection returned
ExitCodeFor(ids) == IF ids # <<>> THEN 0 ELSE 1

\* the dry-run flag looked at before the credentials
MainDecisionDryRunFirst(a) ==
  LET needs == ~a.token \/ ~a.org
      api_token == a.token \/ (needs /\ a.config.api_token)
      org_id == a.org \/ (needs /\ a.config.org_id)
  IN  IF a.dry_run THEN "dry_run"
      ELSE IF needs /\ a.config.kind \in {"missing", "malformed"}
        THEN "config_exit"
      ELSE IF needs /\ a.config.kind = "notobject" THEN "fault"
      ELSE IF ~api_token \/ ~org_id THEN "credentials_exit"
      ELSE "run"

\* what main does before it builds the manager
MainDecision(a) ==
  LET needs == ~a.token \/ ~a.org
      api_token == a.token \/ (needs /\ a.config.api_token)
      org_id == a.org \/ (needs /\ a.config.org_id)
  IN  IF needs /\ a.config.kind \in {"missing", "malformed"}
        THEN "config_exit"
      ELSE IF needs /\ a.config.kind = "notobject" THEN "fault"
      ELSE IF ~api_token \/ ~org_id THEN "credentials_exit"
      ELSE IF a.dry_run THEN "dry_run"
      ELSE "run"

(***************************************************************************)
(* Control: return to the caller, terminate the process, raise.            *)
(***************************************************************************)
Return(v) ==
  /\ result' = v
  /\ IF stack = <<>>
     THEN pc' = "done" /\ outcome' = "returned" /\ stack' = stack
     ELSE pc' = Head(stack) /\ outcome' = outcome /\ stack' = Tail(stack)
  /\ exit_code' = exit_code

Call(f, back) ==
  /\ pc' = f
  /\ stack' = <<back>> \o stack
  /\ UNCHANGED <<result, outcome, exit_code>>

\* sys.exit(code), or main returning
Exit(code) ==
  /\ pc' = "done"
  /\ outcome' = "exit"
  /\ exit_code' = Some(code)
  /\ UNCHANGED <<stack, result>>

\* an exception nothing catches: from main it ends the process with code 1
Fault ==
  /\ pc' = "done"
  /\ outcome' = "fault"
  /\ exit_code' = IF entry = "main" THEN Some(1) ELSE None
  /\ UNCHANGED <<stack, result>>

(***************************************************************************)
(* main                                                                    *)
(***************************************************************************)
Main ==
  /\ pc = "main"
  /\ LET d == MainDecision(args) IN
       IF d \in {"config_exit", "credentials_exit"} THEN Exit(1)
       ELSE IF d = "fault" THEN Fault
       ELSE IF d = "dry_run" THEN Exit(0)
       ELSE Call("process_projects_and_collection", "main_exit")
  /\ UNCHANGED <<entry, args, url, projects, collections, project_ids,
                 collection, cc_ids, add_args, save_args, log, last_status,
                 marks, remote, file>>

MainExit ==
  /\ pc = "main_exit"
  /\ Exit(ExitCodeFor(result))
  /\ UNCHANGED <<entry, args, url, projects, collections, project_ids,
                 collection, cc_ids, add_args, save_args, log, last_status,
                 marks, remote, file>>

(***************************************************************************)
(* get_projects_by_name_prefix and extract_project_ids                     *)
(***************************************************************************)
GetProjectsStart ==
  /\ pc = "get_projects_by_name_prefix"
  /\ projects' = <<>>
  /\ url' = Some(ProjectsUrl(args.prefix))
  /\ pc' = "get_projects_page"
  /\ UNCHANGED <<entry, args, stack, collections, project_ids, collection,
                 cc_ids, add_args, save_args, result, outcome, exit_code, log,
                 last_status, marks, remote, file>>

GetProjectsPage ==
  /\ pc = "get_projects_page"
  /\ \/ \E st \in ErrStatus :
          /\ log' = Append(log, GetRequest(url[1], FALSE))
          /\ last_status' = st
          /\ Return(ListErrorResult(projects))
          /\ UNCHANGED <<url, projects>>
     \/ /\ HasPage(remote.projects, url[1])
        /\ LET response == Serve(remote.projects, url[1])
               all == Extend(projects, response.data)
           IN  /\ log' = Append(log, GetRequest(url[1], TRUE))
               /\ last_status' = "200"
               /\ projects' = all
               /\ url' = NextUrl(response)
               /\ IF NextUrl(response) = None
                  THEN Return(all)
                  ELSE UNCHANGED <<pc, stack, result, outcome, exit_code>>
  /\ UNCHANGED <<entry, args, collections, project_ids, collection, cc_ids,
                 add_args, save_args, marks, remote, file>>

ExtractStart ==
  /\ pc = "extract_project_ids"
  /\ Call("get_projects_by_name_prefix", "extract_ids")
  /\ UNCHANGED <<entry, args, url, projects, collections, project_ids,
                 collection, cc_ids, add_args, save_args, log, last_status,
                 marks, remote, file>>

ExtractIds ==
  /\ pc = "extract_ids"
  /\ IF HasIds(result) THEN Return(IdsOf(result)) ELSE Fault
  /\ UNCHANGED <<entry, args, url, projects, collections, project_ids,
                 collection, cc_ids, add_args, save_args, log, last_status,
                 marks, remote, file>>

(***************************************************************************)
(* get_collections and find_collection_by_name                             *)
(***************************************************************************)
GetCollectionsStart ==
  /\ pc = "get_collections"
  /\ collections' = <<>>
  /\ url' = Some(CollectionsUrl)
  /\ pc' = "get_collections_page"
  /\ UNCHANGED <<entry, args, stack, projects, project_ids, collection,
                 cc_ids, add_args, save_args, result, outcome, exit_code, log,
                 last_status, marks, remote, file>>

GetCollectionsPage ==
  /\ pc = "get_collections_page"
  /\ \/ \E st \in ErrStatus :
          /\ log' = Append(log, GetRequest(url[1], FALSE))
          /\ last_status' = st
          /\ Return(ListErrorResult(collections))
          /\ UNCHANGED <<url, collections>>
     \/ /\ HasPage(remote.groups, url[1])
        /\ LET response == Serve(remote.groups, url[1])
               all == Extend(collections, response.data)
           IN  /\ log' = Append(log, GetRequest(url[1], TRUE))
               /\ last_status' = "200"
               /\ collections' = all
               /\ url' = NextUrl(response)
               /\ IF NextUrl(response) = None
                  THEN Return(all)
                  ELSE UNCHANGED <<pc, stack, result, outcome, exit_code>>
  /\ UNCHANGED <<entry, args, projects, project_ids, collection, cc_ids,
                 add_args, save_args, marks, remote, file>>

FindStart ==
  /\ pc = "find_collection_by_name"
  /\ Call("get_collections", "find_scan")
  /\ UNCHANGED <<entry, args, url, projects, collections, project_ids,
                 collection, cc_ids, add_args, save_args, log, last_status,
                 marks, remote, file>>

FindScan ==
  /\ pc = "find_scan"
  /\ Return(FindByName(result, args.collection))
  /\ UNCHANGED <<entry, args, url, projects, collections, project_ids,
                 collection, cc_ids, add_args, save_args, log, last_status,
                 marks, remote, file>>

(***************************************************************************)
(* create_collection and add_projects_to_collection                        *)
(***************************************************************************)
\* the remote after a successful creation request
Created(r, collection_name, ids) ==
  LET id == NewGroupIds[r.created + 1] IN
  [r EXCEPT !.groups = AddGroup(@, [id |-> id, name |-> collection_name]),
            !.assoc = @ \cup {<<id, ids[i]>> : i \in 1..Len(ids)},
            !.created = @ + 1]

\* the remote after a successful attach request
Attached(r, collection_id, ids) ==
  [r EXCEPT !.assoc = @ \cup {<<collection_id, ids[i]>> : i \in 1..Len(ids)}]

CreateCollection ==
  /\ pc = "create_collection"
  /\ remote.created < Len(NewGroupIds)
  /\ \/ \E st \in ErrStatus :
          /\ log' = Append(log, CreateRequest(args.collection, cc_ids, FALSE, ""))
          /\ last_status' = st
          /\ remote' = remote
          /\ IF FallsBack(cc_ids)
             THEN /\ cc_ids' = <<>>
                  /\ Call("create_collection", "create_fallback")
             ELSE /\ cc_ids' = cc_ids
                  /\ Exit(1)
     \/ \E id \in {NewGroupIds[remote.created + 1], NoField} :
          /\ log' = Append(log, CreateRequest(args.collection, cc_ids, TRUE, id))
          /\ last_status' = "201"
          /\ remote' = Created(remote, args.collection, cc_ids)
          /\ cc_ids' = cc_ids
          /\ Return(Some([id |-> id, name |-> args.collection]))
  /\ UNCHANGED <<entry, args, url, projects, collections, project_ids,
                 collection, add_args, save_args, marks, file>>

\* the outer create_collection returns what its fallback call returned
CreateFallbackReturn ==
  /\ pc = "create_fallback"
  /\ Return(FallbackResult(result))
  /\ UNCHANGED <<entry, args, url, projects, collections, project_ids,
                 collection, cc_ids, add_args, save_args, log, last_status,
                 marks, remote, file>>

AddProjects ==
  /\ pc = "add_projects_to_collection"
  /\ \/ /\ NoProjects(add_args.project_ids)
        /\ Return(TRUE)
        /\ UNCHANGED <<log, last_status, remote>>
     \/ /\ ~NoProjects(add_args.project_ids)
        /\ \E st \in ErrStatus :
             /\ log' = Append(log, AttachRequest(add_args.collection_id,
                                                 add_args.project_ids, FALSE))
             /\ last_status' = st
             /\ remote' = remote
             /\ Return(FALSE)
     \/ /\ ~NoProjects(add_args.project_ids)
        /\ log' = Append(log, AttachRequest(add_args.collection_id,
                                            add_args.project_ids, TRUE))
        /\ last_status' = "204"
        /\ remote' = Attached(remote, add_args.collection_id,
                              add_args.project_ids)
        /\ Return(TRUE)
  /\ UNCHANGED <<entry, args, url, projects, collections, project_ids,
                 collection, cc_ids, add_args, save_args, marks, file>>

(***************************************************************************)
(* process_projects_and_collection                                         *)
(***************************************************************************)
ProcessStart ==
  /\ pc = "process_projects_and_collection"
  /\ Call("extract_project_ids", "process_ids")
  /\ UNCHANGED <<entry, args, url, projects, collections, project_ids,
                 collection, cc_ids, add_args, save_args, log, last_status,
                 marks, remote, file>>

\* Step 1's result: nothing extracted ends the run, else probe the groups
ProcessIds ==
  /\ pc = "process_ids"
  /\ project_ids' = result
  /\ IF result = <<>>
     THEN Return(<<>>)
     ELSE Call("get_collections", "process_probe")
  /\ UNCHANGED <<entry, args, url, projects, collections, collection, cc_ids,
                 add_args, save_args, log, last_status, marks, remote, file>>

\* Step 2's result: an empty listing ends the run with the ids
ProcessProbe ==
  /\ pc = "process_probe"
  /\ IF Unavailable(result)
     THEN Return(project_ids)
     ELSE Call("find_collection_by_name", "process_found")
  /\ UNCHANGED <<entry, args, url, projects, collections, project_ids,
                 collection, cc_ids, add_args, save_args, log, last_status,
                 marks, remote, file>>

\* Step 3: create the collection when none was found, else attach to it
ProcessFound ==
  /\ pc = "process_found"
  /\ collection' = result
  /\ IF result = None
     THEN /\ cc_ids' = project_ids
          /\ add_args' = add_args
          /\ Call("create_collection", "process_created")
     ELSE IF result[1].id = NoField
     THEN /\ Fault
          /\ UNCHANGED <<cc_ids, add_args>>
     ELSE /\ add_args' = [collection_id |-> result[1].id,
                          project_ids |-> project_ids]
          /\ cc_ids' = cc_ids
          /\ Call("add_projects_to_collection", "process_added")
  /\ UNCHANGED <<entry, args, url, projects, collections, project_ids,
                 save_args, log, last_status, marks, remote, file>>

\* the created collection's id is read to attach the projects to it
ProcessCreated ==
  /\ pc = "process_created"
  /\ collection' = result
  /\ IF result = None \/ result[1].id = NoField
     THEN /\ Fault
          /\ add_args' = add_args
     ELSE /\ add_args' = [collection_id |-> result[1].id,
                          project_ids |-> project_ids]
          /\ Call("add_projects_to_collection", "process_added")
  /\ UNCHANGED <<entry, args, url, projects, collections, project_ids, cc_ids,
                 save_args, log, last_status, marks, remote, file>>

\* save_project_ids is called when the attach succeeded and a path was given
Saves(success, output) == success /\ output # None

ProcessAdded ==
  /\ pc = "process_added"
  /\ IF Saves(result, args.output)
     THEN /\ save_args' = [project_ids |-> project_ids,
                           output_file |-> args.output]
          /\ Call("save_project_ids", "process_saved")
     ELSE /\ save_args' = save_args
          /\ Return(project_ids)
  /\ UNCHANGED <<entry, args, url, projects, collections, project_ids,
                 collection, cc_ids, add_args, log, last_status, marks,
                 remote, file>>

\* return project_ids, after save_project_ids returned
ProcessSaved ==
  /\ pc = "process_saved"
  /\ Return(project_ids)
  /\ UNCHANGED <<entry, args, url, projects, collections, project_ids,
                 collection, cc_ids, add_args, save_args, log, last_status,
                 marks, remote, file>>

(***************************************************************************)
(* save_project_ids                                                        *)
(***************************************************************************)
\* if not output_file: output_file = f"project_ids_{int(time.time())}.txt"
PathFor(output_file) ==
  IF output_file = None THEN TimestampPath ELSE output_file[1]

\* the characters of an id: the letter of its row of IdTable and the digit
\* of its column
IdLetters == <<"p", "q", "r", "s">>
IdDigits == <<"1", "2", "3">>

Chars(id) ==
  LET pos == CHOOSE q \in (1..Len(IdTable)) \X (1..Len(IdDigits)) :
                      IdTable[q[1]][q[2]] = id
  IN  <<IdLetters[pos[1]], IdDigits[pos[2]]>>

\* for project_id in project_ids: f.write(f"{project_id}\n")
\* the bytes handed to the file object: each id, then a newline
Text(ids) == Flatten([i \in 1..Len(ids) |-> Chars(ids[i]) \o <<"\n">>])

\* the files after open(output_file, 'w') and k bytes of the text reaching
\* the file at path
WrittenUpTo(files, path, ids, k) ==
  [files EXCEPT ![path] = Some(SubSeq(Text(ids), 1, k))]

\* open may fail, which leaves the files as they are; once it succeeded the
\* file is truncated; the file object buffers the writes, and a failure to
\* write them out can cut the text after any byte; the exception of either
\* failure is caught and the method returns None
SaveProjectIds ==
  /\ pc = "save_project_ids"
  /\ LET path == PathFor(save_args.output_file)
         ids == save_args.project_ids
     IN  \/ file' = file
         \/ file' = WrittenUpTo(file, path, ids, Len(Text(ids)))
         \/ \E k \in 0..(Len(Text(ids)) - 1) :
              file' = WrittenUpTo(file, path, ids, k)
  /\ Return(None)
  /\ UNCHANGED <<entry, args, url, projects, collections, project_ids,
                 collection, cc_ids, add_args, save_args, log, last_status,
                 marks, remote>>

(***************************************************************************)
(* The caller runs process_projects_and_collection a second time, with the *)
(* same arguments, against the remote as the first run left it.            *)
(***************************************************************************)
Rerun ==
  /\ entry = "process_projects_and_collection"
  /\ pc = "done"
  /\ outcome = "returned"
  /\ Len(marks) = 1
  /\ marks' = Append(marks, Len(log))
  /\ pc' = entry
  /\ outcome' = "running"
  /\ url' = None
  /\ projects' = <<>>
  /\ collections' = <<>>
  /\ project_ids' = <<>>
  /\ collection' = None
  /\ cc_ids' = <<>>
  /\ result' = <<>>
  /\ UNCHANGED <<entry, args, stack, add_args, save_args, exit_code, log,
                 last_status, remote, file>>

Next ==
  \/ Main
  \/ MainExit
  \/ GetProjectsStart
  \/ GetProjectsPage
  \/ ExtractStart
  \/ ExtractIds
  \/ GetCollectionsStart
  \/ GetCollectionsPage
  \/ FindStart
  \/ FindScan
  \/ CreateCollection
  \/ CreateFallbackReturn
  \/ AddProjects
  \/ ProcessStart
  \/ ProcessIds
  \/ ProcessProbe
  \/ ProcessFound
  \/ ProcessCreated
  \/ ProcessAdded
  \/ ProcessSaved
  \/ SaveProjectIds
  \/ Rerun

Spec == Init /\ [][Next]_vars

(***************************************************************************)
(* Vocabulary of the properties.                                           *)
(***************************************************************************)
WholeRun == entry \in {"main", "process_projects_and_collection"}

Ended == pc = "done"

\* the requests of the run in progress (or of the last run, once it ended)
RunLog == SubSeq(log, marks[Len(marks)] + 1, Len(log))

IsList(r, ep) == r.kind = "list" /\ r.url.ep = ep

Count(rs, kind) == Cardinality({i \in 1..Len(rs) : rs[i].kind = kind})

AllOk(rs) == \A i \in 1..Len(rs) : rs[i].ok

\* the groups the remote held before the program created any
InitialGroups ==
  SelectSeq(Entries(remote.groups), LAMBDA g : g.id \notin Range(NewGroupIds))

TargetExisted == \E i \in 1..Len(InitialGroups) :
                    InitialGroups[i].name = args.collection

\* the groups listings of the run all succeeded, and there was one
GroupListingSucceeded ==
  /\ \E i \in 1..Len(RunLog) : IsList(RunLog[i], "collections")
  /\ \A i \in 1..Len(RunLog) :
        IsList(RunLog[i], "collections") => RunLog[i].ok

InlineCreate(r) ==
  /\ r.kind = "create"
  /\ r.name = args.collection
  /\ r.inline
  /\ r.ids = project_ids

NameOnlyCreate(r) ==
  /\ r.kind = "create"
  /\ r.name = args.collection
  /\ ~r.inline

(***************************************************************************)
(* C1.  Create-if-absent: in a run with a non-empty id batch whose groups  *)
(* listing succeeds and lists no group with the target name (whatever the  *)
(* length of the listing, zero included), a creation request is issued     *)
(* that carries the name and the whole batch, in order, inline.            *)
(* Stated for the first run, once it has ended.                            *)
(***************************************************************************)
C1_CreateIfAbsent ==
  (/\ WholeRun
   /\ Ended
   /\ Len(marks) = 1
   /\ project_ids # <<>>
   /\ GroupListingSucceeded
   /\ ~TargetExisted)
  => \E i \in 1..Len(RunLog) : InlineCreate(RunLog[i])

(***************************************************************************)
(* C2.  Idempotence: when process_projects_and_collection has run twice    *)
(* with the same name and batch and no request failed, the two runs have   *)
(* created at most one group, and the second run issued no creation        *)
(* request and exactly one attach request, which succeeded.                *)
(***************************************************************************)
C2_Idempotent ==
  (/\ entry = "process_projects_and_collection"
   /\ Ended
   /\ outcome = "returned"
   /\ Len(marks) = 2
   /\ project_ids # <<>>
   /\ AllOk(log))
  => /\ remote.created <= 1
     /\ Count(RunLog, "create") = 0
     /\ Count(RunLog, "attach") = 1

(***************************************************************************)
(* C3.  Fallback outcome: when the creation with inline relationships      *)
(* failed and the name-only creation that followed succeeded and the       *)
(* attach succeeded, the run ends without raising and without terminating  *)
(* the process abnormally, and the group it holds is the one the name-only *)
(* creation returned; no run ends (by raising or otherwise) right after a  *)
(* successful name-only creation that returned a group with an id, before  *)
(* the attach is issued; when both creation requests failed, the process   *)
(* has terminated with exit code 1.                                        *)
(***************************************************************************)
FallbackSucceeded ==
  /\ Len(RunLog) >= 3
  /\ LET n == Len(RunLog) IN
       /\ InlineCreate(RunLog[n - 2]) /\ ~RunLog[n - 2].ok
       /\ NameOnlyCreate(RunLog[n - 1]) /\ RunLog[n - 1].ok
       /\ RunLog[n].kind = "attach" /\ RunLog[n].ok

BothCreationsFailed ==
  /\ Len(RunLog) >= 2
  /\ LET n == Len(RunLog) IN
       /\ InlineCreate(RunLog[n - 1]) /\ ~RunLog[n - 1].ok
       /\ NameOnlyCreate(RunLog[n]) /\ ~RunLog[n].ok

EndedAfterFallbackCreation ==
  /\ RunLog # <<>>
  /\ LET last == RunLog[Len(RunLog)] IN
       NameOnlyCreate(last) /\ last.ok /\ last.answer_id # NoField

EndedWell ==
  \/ entry = "main" /\ outcome = "exit" /\ exit_code = Some(0)
  \/ entry # "main" /\ outcome = "returned"

C3_FallbackOutcome ==
  (WholeRun /\ Ended) =>
    /\ FallbackSucceeded =>
         /\ EndedWell
         /\ collection =
              Some([id |-> RunLog[Len(RunLog) - 1].answer_id,
                    name |-> args.collection])
         /\ RunLog[Len(RunLog)].collection_id =
              RunLog[Len(RunLog) - 1].answer_id
    /\ ~EndedAfterFallbackCreation
    /\ BothCreationsFailed => outcome = "exit" /\ exit_code = Some(1)

C3_Witness == WholeRun /\ Ended /\ FallbackSucceeded

(***************************************************************************)
(* C4.  Degraded success: when ids were extracted and the groups listing   *)
(* is answered 404, the run returns every id of the projects listing, in   *)
(* the listing's order, and main exits with code 0.                        *)
(***************************************************************************)
ProbeAnswered404 ==
  /\ RunLog # <<>>
  /\ IsList(RunLog[Len(RunLog)], "collections")
  /\ ~RunLog[Len(RunLog)].ok
  /\ last_status = "404"
  /\ Count(RunLog, "create") = 0

C4_DegradedSuccess ==
  (WholeRun /\ Ended /\ Len(marks) = 1 /\ project_ids # <<>>
     /\ ProbeAnswered404) =>
    /\ result = IdsOf(Entries(remote.projects))
    /\ entry = "main" => outcome = "exit" /\ exit_code = Some(0)
    /\ entry # "main" => outcome = "returned"

C4_Witness ==
  /\ entry = "main" /\ Ended /\ ProbeAnswered404
  /\ Len(project_ids) = 2

(***************************************************************************)
(* C5.  Zero matches: when the projects listing yields no entry, the run   *)
(* returns the empty sequence and main exits with code 1.                  *)
(***************************************************************************)
ListedNoProject ==
  /\ RunLog # <<>>
  /\ \A i \in 1..Len(RunLog) : IsList(RunLog[i], "projects") /\ RunLog[i].ok
  /\ Entries(remote.projects) = <<>>

C5_ZeroMatches ==
  (WholeRun /\ Ended /\ ListedNoProject) =>
    /\ result = <<>>
    /\ entry = "main" => outcome = "exit" /\ exit_code = Some(1)
    /\ entry # "main" => outcome = "returned"

C5_Witness == entry = "main" /\ Ended /\ ListedNoProject

(***************************************************************************)
(* C6.  Pagination completeness and order: when every request of a chain   *)
(* of pages succeeded, get_projects_by_name_prefix and get_collections     *)
(* return the concatenation of the pages' data in page order, and          *)
(* extract_project_ids returns the ids of those entries in that order.     *)
(***************************************************************************)
C6_Pagination ==
  (Ended /\ log # <<>> /\ AllOk(log)) =>
    /\ entry = "get_projects_by_name_prefix" =>
         outcome = "returned" /\ result = Entries(remote.projects)
    /\ entry = "get_collections" =>
         outcome = "returned" /\ result = Entries(remote.groups)
    /\ (entry = "extract_project_ids" /\ outcome = "returned") =>
         result = IdsOf(Entries(remote.projects))

C6_Witness ==
  /\ entry = "extract_project_ids"
  /\ Ended
  /\ outcome = "returned"
  /\ AllOk(log)
  /\ Len(remote.projects) = 3
  /\ Len(remote.projects[1].data) = 2
  /\ Len(remote.projects[2].data) = 2
  /\ Len(remote.projects[3].data) = 1
  /\ Len(result) = 5

(***************************************************************************)
(* C7.  End-to-end request sequence: when the prefix yields p1 and p2 on   *)
(* one page, the target collection does not exist yet and every request    *)
(* succeeds, the requests of the run are exactly: list projects, list      *)
(* groups, create the group with [p1, p2] inline, attach [p1, p2]; the run *)
(* returns [p1, p2] and the exit code is 0.                                *)
(***************************************************************************)
C7_RequestSequence ==
  (/\ entry = "main"
   /\ Ended
   /\ log # <<>>
   /\ AllOk(log)
   /\ \A i \in 1..Len(log) : log[i].answer_id # NoField
   /\ remote.projects = <<ProjectPage(0, 2)>>
   /\ ~TargetExisted)
  => /\ Len(log) = 4
     /\ log[1] = GetRequest(ProjectsUrl(args.prefix), TRUE)
     /\ log[2] = GetRequest(CollectionsUrl, TRUE)
     /\ log[3] = CreateRequest(args.collection, <<"p1", "p2">>, TRUE,
                               log[3].answer_id)
     /\ log[4] = AttachRequest(log[3].answer_id, <<"p1", "p2">>, TRUE)
     /\ result = <<"p1", "p2">>
     /\ exit_code = Some(0)

(***************************************************************************)
(* C8.  Exit-code characterization: a run of main that is no dry run and   *)
(* has its credentials ends with exit code 1 exactly when no project id    *)
(* was extracted or both creation requests failed, and with exit code 0    *)
(* otherwise.                                                              *)
(***************************************************************************)
C8_ExitCodes ==
  (entry = "main" /\ Ended /\ ~args.dry_run /\ CredentialsPresent(args)) =>
    /\ exit_code \in {Some(0), Some(1)}
    /\ exit_code = Some(1) <=> (project_ids = <<>> \/ BothCreationsFailed)

(***************************************************************************)
(* C9.  Matcher result: find_collection_by_name returns the first listed   *)
(* group, in list order, whose name equals the target exactly (case        *)
(* included), and None, without raising, when no listed group has it.      *)
(***************************************************************************)
Listed == IF AllOk(log) THEN Entries(remote.groups) ELSE <<>>

C9_Matcher ==
  (entry = "find_collection_by_name" /\ Ended) =>
    /\ outcome = "returned"
    /\ LET hits == {i \in 1..Len(Listed) :
                      Listed[i].name = args.collection}
       IN  IF hits = {}
           THEN result = None
           ELSE \E i \in hits :
                  /\ \A j \in hits : i <= j
                  /\ result = Some(Listed[i])

C9_Witness ==
  /\ entry = "find_collection_by_name"
  /\ Ended
  /\ AllOk(log)
  /\ args.collection = "backend"
  /\ Len(Listed) >= 3
  /\ Listed[1].name = "Backend"
  /\ Listed[2].name = "backend"
  /\ Listed[3].name = "backend"
  /\ result = Some(Listed[2])

(***************************************************************************)
(* C10.  Dry-run, as claimed: whenever the dry-run flag is given, main     *)
(* issues no network request and exits with code 0, whatever the other     *)
(* arguments and the configuration file.                                   *)
(***************************************************************************)
C10_DryRunAlwaysZero ==
  (entry = "main" /\ args.dry_run) =>
    /\ log = <<>>
    /\ Ended => outcome = "exit" /\ exit_code = Some(0)

(***************************************************************************)
(* C10, amended.  Whenever the dry-run flag is given, main issues no       *)
(* network request; it exits with code 0 when both credentials are had     *)
(* from the command line or the configuration file, and with code 1 when   *)
(* they are not.                                                           *)
(***************************************************************************)
C10_DryRun ==
  (entry = "main" /\ args.dry_run) =>
    /\ log = <<>>
    /\ Ended => exit_code = Some(IF CredentialsPresent(args) THEN 0 ELSE 1)

C10_Witness ==
  /\ entry = "main"
  /\ args.dry_run
  /\ Ended
  /\ ~args.token
  /\ args.config.kind = "object"
  /\ exit_code = Some(0)

(***************************************************************************)
(* C11.  Fallback arity: the requests of a run hold at most one creation   *)
(* request with inline relationships and at most one name-only creation    *)
(* request; a name-only creation request comes right after a creation      *)
(* request with inline relationships that failed; a failed name-only       *)
(* creation request is the last request of the run; and no creation        *)
(* request follows a creation request that succeeded.                      *)
(***************************************************************************)
Creates(rs) == {i \in 1..Len(rs) : rs[i].kind = "create"}

C11_FallbackArity ==
  WholeRun =>
    /\ Cardinality({i \in Creates(RunLog) : RunLog[i].inline}) <= 1
    /\ Cardinality({i \in Creates(RunLog) : ~RunLog[i].inline}) <= 1
    /\ \A i \in Creates(RunLog) :
         /\ ~RunLog[i].inline =>
              /\ i > 1
              /\ RunLog[i - 1].kind = "create"
              /\ RunLog[i - 1].inline
              /\ ~RunLog[i - 1].ok
         /\ (~RunLog[i].inline /\ ~RunLog[i].ok) => i = Len(RunLog)
         /\ RunLog[i].ok => \A j \in Creates(RunLog) : j <= i

C11_Witness ==
  /\ entry = "main"
  /\ Ended
  /\ BothCreationsFailed
  /\ Count(RunLog, "create") = 2
  /\ Count(RunLog, "attach") = 0

(***************************************************************************)
(* C12.  Attach always follows reconciliation: when a run that obtained a  *)
(* group (found by name, created inline, or created by the fallback) has   *)
(* ended, it has issued exactly one attach request, as its last request,   *)
(* addressed to that group's id and carrying the whole id batch in the     *)
(* listing's order.                                                        *)
(***************************************************************************)
ObtainedGroup == collection # None

C12_AttachFollows ==
  (WholeRun /\ Ended /\ ObtainedGroup) =>
    /\ Count(RunLog, "attach") = 1
    /\ LET last == RunLog[Len(RunLog)] IN
         /\ last.kind = "attach"
         /\ last.collection_id = collection[1].id
         /\ last.ids = project_ids
         /\ last.ids = IdsOf(Entries(remote.projects))

(***************************************************************************)
(* C13.  List errors degrade to an empty result: when a request of         *)
(* get_projects_by_name_prefix or get_collections failed (no response, or  *)
(* status 401, 403, 404 or 500), on the first page or a later one, the     *)
(* lister has returned, without raising, the empty list: the entries of    *)
(* the pages fetched before the failure are not in the result.             *)
(***************************************************************************)
ListerCalled == entry \in {"get_projects_by_name_prefix", "get_collections"}

SomeRequestFailed == \E i \in 1..Len(log) : ~log[i].ok

C13_ListErrorsDegrade ==
  (ListerCalled /\ Ended /\ SomeRequestFailed) =>
    /\ outcome = "returned"
    /\ result = <<>>

C13_Witness ==
  /\ entry = "get_collections"
  /\ Ended
  /\ Len(log) = 3
  /\ log[1].ok /\ log[2].ok /\ ~log[3].ok
  /\ last_status = "403"
  /\ Len(collections) = 4
  /\ result = <<>>

(***************************************************************************)
(* C14.  Empty attach is a no-op success: add_projects_to_collection       *)
(* called with an empty id batch, for whichever collection id, issues no   *)
(* network request, leaves the remote as it was, and returns True.         *)
(***************************************************************************)
EmptyAttachCalled ==
  /\ entry = "add_projects_to_collection"
  /\ add_args.project_ids = <<>>

C14_EmptyAttach ==
  EmptyAttachCalled =>
    /\ log = <<>>
    /\ remote = Remote(EmptyChain, EmptyChain)
    /\ Ended => outcome = "returned" /\ result = TRUE

C14_Witness ==
  /\ EmptyAttachCalled
  /\ add_args.collection_id = "h2"
  /\ Ended
  /\ result = TRUE
  /\ log = <<>>

(***************************************************************************)
(* C15.  No uncaught faults: whatever the remote answers (any request      *)
(* failing, any successful body, a listed entry or a creation answer       *)
(* without id field included), a run that has ended has not raised: it has *)
(* returned the id batch, or the process has terminated with exit code 1   *)
(* after both creation requests failed.                                    *)
(***************************************************************************)
C15_NoUncaughtFaults ==
  (WholeRun /\ Ended /\ log # <<>>) =>
    /\ outcome # "fault"
    /\ entry = "process_projects_and_collection" =>
         \/ outcome = "returned" /\ result = project_ids
         \/ outcome = "exit" /\ exit_code = Some(1) /\ BothCreationsFailed

(***************************************************************************)
(* C16.  Output file: when a run that was given an output path has ended   *)
(* with exit code 0 (ids were extracted and returned; the outcomes where   *)
(* the groups are unavailable or the attach failed included), the output   *)
(* file has been written and holds exactly the returned ids, one per line, *)
(* in the returned order; when no output path was given, no file is        *)
(* written.                                                                *)
(***************************************************************************)
\* the run ended the way main reports with exit code 0
EndedWithCodeZero ==
  /\ Ended
  /\ \/ entry = "main" /\ ~args.dry_run /\ exit_code = Some(0)
     \/ /\ entry = "process_projects_and_collection"
        /\ outcome = "returned"
        /\ result # <<>>

C16_OutputFile ==
  WholeRun =>
    /\ (EndedWithCodeZero /\ args.output # None) =>
         file[args.output[1]] = Some(Text(result))
    /\ args.output = None => file = NoFiles

(***************************************************************************)
(* C17.  Pagination termination: against a chain of n pages, a lister      *)
(* issues its GETs one per page, in chain order: the first to the          *)
(* listing's URL, each later one to the URL the previous answer gave as    *)
(* its next link, unchanged; a failed request is the lister's last; when   *)
(* the lister has returned, its last request failed or fetched the page    *)
(* without next link, so that n requests were issued when none failed,     *)
(* and never more than n.                                                  *)
(***************************************************************************)
OnlyLists ==
  entry \in {"get_projects_by_name_prefix", "extract_project_ids",
             "get_collections", "find_collection_by_name"}

ListedChain ==
  IF entry \in {"get_projects_by_name_prefix", "extract_project_ids"}
  THEN remote.projects
  ELSE remote.groups

FirstUrl ==
  IF entry \in {"get_projects_by_name_prefix", "extract_project_ids"}
  THEN ProjectsUrl(args.prefix)
  ELSE CollectionsUrl

C17_PaginationTerminates ==
  OnlyLists =>
    /\ Len(log) <= Len(ListedChain)
    /\ \A i \in 1..Len(log) :
         /\ log[i].kind = "list"
         /\ i = 1 => log[i].url = FirstUrl
         /\ i > 1 =>
              /\ log[i - 1].ok
              /\ Serve(ListedChain, log[i - 1].url).next = Some(log[i].url)
    /\ (Ended /\ log # <<>>) =>
         \/ ~log[Len(log)].ok
         \/ Serve(ListedChain, log[Len(log)].url).next = None
    /\ (Ended /\ AllOk(log)) => Len(log) = Len(ListedChain)

C17_Witness ==
  /\ entry = "get_projects_by_name_prefix"
  /\ Ended
  /\ AllOk(log)
  /\ Len(log) = 3
  /\ log[2].url.cursor = 2
  /\ log[3].url.cursor = 1

(***************************************************************************)
(* C18.  No creation when the target already exists: when the remote held  *)
(* a group with the target name before the run and holds it throughout,    *)
(* then whichever list requests fail, the run issues no creation request,  *)
(* and every attach request it issues is addressed to a group of that name *)
(* that the remote already held.                                           *)
(***************************************************************************)
ExistingTargetIds ==
  {InitialGroups[i].id : i \in {j \in 1..Len(InitialGroups) :
                                   InitialGroups[j].name = args.collection}}

C18_NoCreationWhenExists ==
  (WholeRun /\ TargetExisted) =>
    /\ Count(RunLog, "create") = 0
    /\ \A i \in 1..Len(RunLog) :
         RunLog[i].kind = "attach" =>
           RunLog[i].collection_id \in ExistingTargetIds

(***************************************************************************)
(* C19.  No remote write on short-circuit: a run that extracted no project *)
(* id has issued nothing but projects listing requests; a run in which a   *)
(* groups listing request failed has issued no creation and no attach      *)
(* request; in both cases a first run leaves the remote's groups and       *)
(* associations as they were.                                              *)
(***************************************************************************)
GroupsListingFailed ==
  \E i \in 1..Len(RunLog) : IsList(RunLog[i], "collections") /\ ~RunLog[i].ok

NoRemoteWrite ==
  /\ Count(RunLog, "create") = 0
  /\ Count(RunLog, "attach") = 0
  /\ Len(marks) = 1 => remote.created = 0 /\ remote.assoc = {}

C19_NoWriteOnShortCircuit ==
  WholeRun =>
    /\ project_ids = <<>> =>
         /\ NoRemoteWrite
         /\ \A i \in 1..Len(RunLog) : IsList(RunLog[i], "projects")
    /\ GroupsListingFailed => NoRemoteWrite

=============================================================================
